---- MODULE Spec2Model ----
(***************************************************************************)
(* A model of DibTest/main.cpp: the Image pixel buffer, the three DIB      *)
(* encoders (makeOldDib, makeNewDib short/long), the Clipboard wrapper     *)
(* and the demo's main().                                                  *)
(*                                                                         *)
(* Numbers whose width matters are kept as little-endian byte sequences    *)
(* (the build is little-endian, main.cpp:14): a size_t is 8 bytes, a       *)
(* DWORD / LONG header field is 4 bytes, a WORD is 2 bytes.                *)
(***************************************************************************)
EXTENDS Integers, Sequences, FiniteSets, TLC

VARIABLES
    im,         \* the Image under test: [fWidth, fHeight, fData]
    last,       \* the last Image / encoder operation and its outcome
    stream,     \* the bytes returned by the last makeOldDib / makeNewDib
    clip,       \* the Clipboard object: "none", "alive", "dead"
    needClear,  \* Clipboard::needClear
    isOpen,     \* the system clipboard is held open by this process
    board,      \* the system clipboard's content: a set of [fmt, data]
    calls,      \* the system clipboard calls made so far, in order
    exc,        \* the exception the last call threw ("" when none)
    copies,     \* the copy calls made on the Clipboard object
    pc,         \* main()'s position
    locals,     \* main()'s images
    cout        \* the lines written to standard output

vars == <<im, last, stream, clip, needClear, isOpen, board, calls, exc,
          copies, pc, locals, cout>>

imgVars == <<im, last, stream>>
clipVars == <<clip, needClear, isOpen, board, calls, exc, copies>>
mainVars == <<pc, locals, cout>>

----------------------------------------------------------------------------
\* Bounds of the model.

\* Small widths, heights and indices range over 0..MaxDim (indices one more).
MaxDim == 2

\* The largest pixel storage (width * height) the model allocates.
MaxPixels == 4

\* The number of copy calls made on one Clipboard object.
MaxCalls == 3

----------------------------------------------------------------------------
\* Fixed-width unsigned integers as little-endian byte sequences.

\* The n-byte little-endian representation of a natural below 2^31.
LE(v, n) ==
    [i \in 1..n |-> IF i <= 4 THEN (v \div (256 ^ (i - 1))) % 256 ELSE 0]

SizeT(v) == LE(v, 8)
DWORD(v) == LE(v, 4)
WORD(v) == LE(v, 2)

\* Whether a byte sequence denotes a number below 2^31, and that number.
Fits(s) ==
    /\ \A i \in 1..Len(s) : i > 4 => s[i] = 0
    /\ (Len(s) >= 4 => s[4] < 128)

RECURSIVE ToNat(_)
ToNat(s) == IF s = <<>> THEN 0 ELSE s[1] + 256 * ToNat(Tail(s))

IsZero(s) == \A i \in 1..Len(s) : s[i] = 0

\* a > b, unsigned, compared from the most significant byte down.
RECURSIVE GtFrom(_, _, _)
GtFrom(a, b, i) ==
    IF i = 0 THEN FALSE
    ELSE IF a[i] # b[i] THEN a[i] > b[i]
    ELSE GtFrom(a, b, i - 1)

Gt(a, b) == GtFrom(a, b, Len(a))

\* a + b modulo 2^64.
RECURSIVE AddFrom(_, _, _, _)
AddFrom(a, b, i, carry) ==
    IF i > Len(a) THEN <<>>
    ELSE LET s == a[i] + b[i] + carry
         IN  <<s % 256>> \o AddFrom(a, b, i + 1, s \div 256)

Add(a, b) == AddFrom(a, b, 1, 0)

\* a * b modulo 2^64 (schoolbook, one result byte at a time).
RECURSIVE ColumnSum(_, _, _, _)
ColumnSum(a, b, k, i) ==
    IF i > k THEN 0
    ELSE a[i] * b[k + 1 - i] + ColumnSum(a, b, k, i + 1)

RECURSIVE MulFrom(_, _, _, _)
MulFrom(a, b, k, carry) ==
    IF k > Len(a) THEN <<>>
    ELSE LET s == ColumnSum(a, b, k, 1) + carry
         IN  <<s % 256>> \o MulFrom(a, b, k + 1, s \div 256)

Mul(a, b) == MulFrom(a, b, 1, 0)

\* The conversion of a size_t to a 32-bit field keeps the low four bytes.
Narrow32(s) == SubSeq(s, 1, 4)

\* A 32-bit field widened back to 64 bits, read as unsigned.
ZeroExt(d) == d \o <<0, 0, 0, 0>>

\* The sign bit of a 32-bit field read as a LONG.
IsNegative(d) == d[4] >= 128

----------------------------------------------------------------------------
\* struct Rgba: four bytes, in memory order b, g, r, a.

Rgba(b, g, r, a) == [b |-> b, g |-> g, r |-> r, a |-> a]

WHITE == Rgba(255, 255, 255, 255)
SEMI_BLACK == Rgba(0, 0, 0, 64)
SEMI_AQUA == Rgba(255, 255, 0, 64)
SEMI_PINK == Rgba(255, 0, 255, 64)
RED == Rgba(0, 0, 255, 255)
GREEN == Rgba(0, 170, 0, 255)
BLUE == Rgba(255, 0, 0, 255)
YELLOW == Rgba(0, 215, 255, 255)

A_MASK == <<0, 0, 0, 255>>
R_MASK == <<0, 0, 255, 0>>
G_MASK == <<0, 255, 0, 0>>
B_MASK == <<255, 0, 0, 0>>

\* The bytes of one pixel as reinterpret_cast<const char*> reads them.
PixelBytes(p) == <<p.b, p.g, p.r, p.a>>

\* The colors the model paints with.
Colors == {YELLOW, SEMI_AQUA}

----------------------------------------------------------------------------
\* class Image.

EmptyImage == [fWidth |-> SizeT(0), fHeight |-> SizeT(0), fData |-> <<>>]

\* main's and makeImage's locals before main runs.
NoLocals ==
    [imBlack |-> EmptyImage, imPink |-> EmptyImage, imAqua |-> EmptyImage,
     image |-> EmptyImage, y |-> 0, target |-> ""]

width(i) == i.fWidth
height(i) == i.fHeight
area(i) == Mul(i.fWidth, i.fHeight)
nBytes(i) == Mul(area(i), SizeT(4))

\* fData.resize(n) followed by std::fill: n elements, every one the color.
ResizeKeepingOld(old, n, color) ==
    [k \in 1..n |-> IF k <= Len(old) THEN old[k] ELSE color]

ResizeAndFill(old, n, color) == [k \in 1..n |-> color]

\* Image::resize; w * h is below 2^31 in every call the model makes.
resize(i, w, h, color) ==
    [fWidth |-> w, fHeight |-> h,
     fData |-> ResizeAndFill(i.fData, ToNat(Mul(w, h)), color)]

\* The bounds tests of Image::at and Image::scanLine.
AtRejects(i, y, x) == Gt(y, i.fHeight) \/ Gt(x, i.fWidth)

ScanLineRejects(i, y) == Gt(y, i.fHeight)

\* Image::at: the exception, or a reference to fData[y * fWidth + x]; the
\* offset is kept as a size_t, the vector's operator[] does not check it.
at(i, y, x) ==
    IF AtRejects(i, y, x)
    THEN [kind |-> "throw", off |-> SizeT(0)]
    ELSE [kind |-> "ref", off |-> Add(Mul(y, i.fWidth), x)]

\* Image::scanLine: the exception, or the span {data + y * fWidth, fWidth}.
scanLine(i, y) ==
    IF ScanLineRejects(i, y)
    THEN [kind |-> "throw", off |-> SizeT(0), len |-> SizeT(0)]
    ELSE [kind |-> "span", off |-> Mul(y, i.fWidth), len |-> i.fWidth]

\* Whether an element offset lies inside the vector's storage.
InStorage(i, off) == Fits(off) /\ ToNat(off) < Len(i.fData)

\* Whether a span lies inside the vector's storage (an empty span does).
SpanInStorage(i, sp) ==
    \/ IsZero(sp.len)
    \/ /\ Fits(sp.off) /\ Fits(sp.len)
       /\ ToNat(sp.off) + ToNat(sp.len) <= Len(i.fData)

\* The pixels a span inside the storage views.
SpanPixels(i, sp) ==
    IF IsZero(sp.len) THEN <<>>
    ELSE SubSeq(i.fData, ToNat(sp.off) + 1, ToNat(sp.off) + ToNat(sp.len))

\* std::fill over a span inside the storage.
FillSpan(i, sp, color) ==
    IF IsZero(sp.len) THEN i
    ELSE [i EXCEPT !.fData =
            [k \in 1..Len(i.fData) |->
                IF k > ToNat(sp.off) /\ k <= ToNat(sp.off) + ToNat(sp.len)
                THEN color ELSE i.fData[k]]]

----------------------------------------------------------------------------
\* The DIB encoders.

BI_BITFIELDS == 3
LCS_sRGB == 1934772034
LCS_GM_IMAGES == 4

\* The bytes of a run of pixels: four per pixel, in memory order.
Flatten(pixels) ==
    [k \in 1..(4 * Len(pixels)) |->
        PixelBytes(pixels[((k - 1) \div 4) + 1])[((k - 1) % 4) + 1]]

Zeros(n) == [k \in 1..n |-> 0]

\* writeBitPalette: the array {R_MASK, G_MASK, B_MASK} as it lies in memory.
writeBitPalette == R_MASK \o G_MASK \o B_MASK

\* The loop of writeImageData from row y - 1 down to row 0: the bytes
\* written, unless scanLine throws or a span leaves the storage.
RECURSIVE RowsTopDown(_, _, _)
RowsTopDown(i, y, n) ==
    IF y = n THEN [kind |-> "ok", bytes |-> <<>>]
    ELSE LET sp == scanLine(i, SizeT(y))
         IN  IF sp.kind = "throw" THEN [kind |-> "throw", bytes |-> <<>>]
             ELSE IF ~SpanInStorage(i, sp) THEN [kind |-> "wild", bytes |-> <<>>]
             ELSE LET rest == RowsTopDown(i, y + 1, n)
                  IN  IF rest.kind # "ok" THEN rest
                      ELSE [kind |-> "ok",
                            bytes |-> Flatten(SpanPixels(i, sp)) \o rest.bytes]

RECURSIVE RowsBottomUp(_, _)
RowsBottomUp(i, y) ==
    IF y = 0 THEN [kind |-> "ok", bytes |-> <<>>]
    ELSE LET sp == scanLine(i, SizeT(y - 1))
         IN  IF sp.kind = "throw" THEN [kind |-> "throw", bytes |-> <<>>]
             ELSE IF ~SpanInStorage(i, sp) THEN [kind |-> "wild", bytes |-> <<>>]
             ELSE LET rest == RowsBottomUp(i, y - 1)
                  IN  IF rest.kind # "ok" THEN rest
                      ELSE [kind |-> "ok",
                            bytes |-> Flatten(SpanPixels(i, sp)) \o rest.bytes]

WriteTopDown(i) ==
    IF Fits(height(i)) THEN RowsTopDown(i, 0, ToNat(height(i)))
    ELSE IF IsZero(width(i)) THEN [kind |-> "ok", bytes |-> <<>>]
    ELSE [kind |-> "wild", bytes |-> <<>>]

\* writeImageData.  A height of 2^31 or more is only reached with width 0
\* (the storage bound), where every row is an empty span inside the storage
\* and no byte is written.
writeImageData(i) ==
    IF Fits(height(i)) THEN RowsBottomUp(i, ToNat(height(i)))
    ELSE IF IsZero(width(i)) THEN [kind |-> "ok", bytes |-> <<>>]
    ELSE [kind |-> "wild", bytes |-> <<>>]

\* BITMAPINFOHEADER as makeOldDib fills it, in the struct's layout.
OldHeader(i) ==
    DWORD(40)                     \* biSize
    \o Narrow32(width(i))         \* biWidth
    \o Narrow32(height(i))        \* biHeight
    \o WORD(1)                    \* biPlanes
    \o WORD(32)                   \* biBitCount
    \o DWORD(BI_BITFIELDS)        \* biCompression
    \o Narrow32(nBytes(i))        \* biSizeImage
    \o Zeros(16)                  \* biXPelsPerMeter .. biClrImportant

\* The fields of BITMAPV5HEADER that makeNewDib sets explicitly.
AlphaMaskZero == Zeros(4)

bV5AlphaMask == A_MASK

ClrUsedPaletteCount(isLong) == IF isLong THEN DWORD(3) ELSE DWORD(0)

bV5ClrUsed(isLong) == DWORD(0)

\* BITMAPV5HEADER as makeNewDib fills it, in the struct's layout.
NewHeader(i, isLong) ==
    DWORD(124)                    \* bV5Size
    \o Narrow32(width(i))         \* bV5Width
    \o Narrow32(height(i))        \* bV5Height
    \o WORD(1)                    \* bV5Planes
    \o WORD(32)                   \* bV5BitCount
    \o DWORD(BI_BITFIELDS)        \* bV5Compression
    \o Narrow32(nBytes(i))        \* bV5SizeImage
    \o Zeros(8)                   \* bV5XPelsPerMeter, bV5YPelsPerMeter
    \o bV5ClrUsed(isLong)         \* bV5ClrUsed
    \o Zeros(4)                   \* bV5ClrImportant
    \o R_MASK \o G_MASK \o B_MASK \o bV5AlphaMask
    \o DWORD(LCS_sRGB)            \* bV5CSType
    \o Zeros(48)                  \* bV5Endpoints, bV5Gamma*
    \o DWORD(LCS_GM_IMAGES)       \* bV5Intent
    \o Zeros(12)                  \* bV5ProfileData, bV5ProfileSize, bV5Reserved

\* The palette section of makeNewDib.
PaletteAlways(isLong) == writeBitPalette

NewPalette(isLong) == IF isLong THEN writeBitPalette ELSE <<>>

\* makeOldDib and makeNewDib: header, palette, pixel data; an exception of
\* writeImageData leaves the function before os.str().
Encoded(head, data) ==
    IF data.kind = "ok" THEN [kind |-> "ok", bytes |-> head \o data.bytes]
    ELSE data

makeOldDib(i) == Encoded(OldHeader(i) \o writeBitPalette, writeImageData(i))

makeNewDib(i, isLong) ==
    Encoded(NewHeader(i, isLong) \o NewPalette(isLong), writeImageData(i))

----------------------------------------------------------------------------
\* The Image and encoder operations as actions.

\* Widths and heights of 2^31 and 2^32 + 1 are legal size_t arguments.
BigDims == {<<0, 0, 0, 128, 0, 0, 0, 0>>, <<1, 0, 0, 0, 1, 0, 0, 0>>}

Dims == {SizeT(n) : n \in 0..MaxDim} \cup BigDims

Idx == {SizeT(n) : n \in 0..(MaxDim + 1)}

NoLast ==
    [op |-> "none", y |-> SizeT(0), x |-> SizeT(0), c |-> WHITE,
     kind |-> "ok", val |-> WHITE, painted |-> FALSE]

Running == last.kind # "crash"

\* image.resize(w, h, c), for the sizes whose storage the model can hold.
Resize(w, h, c) ==
    /\ Running
    /\ Fits(Mul(w, h)) /\ ToNat(Mul(w, h)) <= MaxPixels
    /\ im' = resize(im, w, h, c)
    /\ last' = [NoLast EXCEPT !.op = "resize", !.c = c,
                              !.painted = \E k \in 1..Len(im.fData) :
                                              im.fData[k] # c]
    /\ stream' = <<>>
    /\ UNCHANGED <<clipVars, mainVars>>

\* image(y, x) = c.  A reference outside the storage is undefined
\* behaviour: the write lands outside the pixels, or the process dies.
SetPixel(y, x, c) ==
    /\ Running
    /\ LET r == at(im, y, x)
           l == [NoLast EXCEPT !.op = "set", !.y = y, !.x = x, !.c = c]
       IN  \/ /\ r.kind = "throw"
              /\ im' = im
              /\ last' = [l EXCEPT !.kind = "throw"]
           \/ /\ r.kind = "ref" /\ InStorage(im, r.off)
              /\ im' = [im EXCEPT !.fData[ToNat(r.off) + 1] = c]
              /\ last' = [l EXCEPT !.kind = "ok"]
           \/ /\ r.kind = "ref" /\ ~InStorage(im, r.off)
              /\ im' = im
              /\ \E k \in {"wild", "crash"} : last' = [l EXCEPT !.kind = k]
    /\ stream' = <<>>
    /\ UNCHANGED <<clipVars, mainVars>>

\* A read of image(y, x).  Outside the storage it yields any value, or the
\* process dies.
GetPixel(y, x) ==
    /\ Running
    /\ LET r == at(im, y, x)
           l == [NoLast EXCEPT !.op = "get", !.y = y, !.x = x]
       IN  \/ /\ r.kind = "throw"
              /\ last' = [l EXCEPT !.kind = "throw"]
           \/ /\ r.kind = "ref" /\ InStorage(im, r.off)
              /\ last' = [l EXCEPT !.kind = "ok",
                                   !.val = im.fData[ToNat(r.off) + 1]]
           \/ /\ r.kind = "ref" /\ ~InStorage(im, r.off)
              /\ \/ \E v \in Colors :
                       last' = [l EXCEPT !.kind = "wild", !.val = v]
                 \/ last' = [l EXCEPT !.kind = "crash"]
    /\ im' = im
    /\ stream' = <<>>
    /\ UNCHANGED <<clipVars, mainVars>>

\* std::fill over image.scanLine(y).
FillScanLine(y, c) ==
    /\ Running
    /\ LET sp == scanLine(im, y)
           l == [NoLast EXCEPT !.op = "fill", !.y = y, !.c = c]
       IN  \/ /\ sp.kind = "throw"
              /\ im' = im
              /\ last' = [l EXCEPT !.kind = "throw"]
           \/ /\ sp.kind = "span" /\ SpanInStorage(im, sp)
              /\ im' = FillSpan(im, sp, c)
              /\ last' = [l EXCEPT !.kind = "ok"]
           \/ /\ sp.kind = "span" /\ ~SpanInStorage(im, sp)
              /\ im' = im
              /\ \E k \in {"wild", "crash"} : last' = [l EXCEPT !.kind = k]
    /\ stream' = <<>>
    /\ UNCHANGED <<clipVars, mainVars>>

EncodeResult(opName, r) ==
    /\ last' = [NoLast EXCEPT !.op = opName, !.kind = r.kind]
    /\ stream' = r.bytes
    /\ im' = im
    /\ UNCHANGED <<clipVars, mainVars>>

MakeOldDib ==
    /\ Running
    /\ EncodeResult("makeOldDib", makeOldDib(im))

MakeNewDib(isLong) ==
    /\ Running
    /\ EncodeResult(IF isLong THEN "makeNewDibLong" ELSE "makeNewDibShort",
                    makeNewDib(im, isLong))

Init ==
    /\ im = EmptyImage
    /\ last = NoLast
    /\ stream = <<>>
    /\ clip = "none"
    /\ needClear = TRUE
    /\ isOpen = FALSE
    /\ board = {}
    /\ calls = <<>>
    /\ exc = ""
    /\ copies = 0
    /\ pc = "start"
    /\ locals = NoLocals
    /\ cout = <<>>

Next ==
    \/ \E w \in Dims, h \in Dims, c \in Colors : Resize(w, h, c)
    \/ \E y \in Idx, x \in Idx, c \in Colors : SetPixel(y, x, c)
    \/ \E y \in Idx, x \in Idx : GetPixel(y, x)
    \/ \E y \in Idx, c \in Colors : FillScanLine(y, c)
    \/ MakeOldDib
    \/ \E isLong \in BOOLEAN : MakeNewDib(isLong)

Spec == Init /\ [][Next]_vars

----------------------------------------------------------------------------
\* The system clipboard and class Clipboard.

CF_BITMAP == 2
CF_DIB == 8
CF_DIBV5 == 17

Call(name, fmt, data) == [call |-> name, fmt |-> fmt, data |-> data]

\* The part of the state a Clipboard method works on.
ClipState == [needClear |-> needClear, board |-> board, calls |-> calls,
              exc |-> ""]

\* EmptyClipboard and SetClipboardData: setting a format replaces what the
\* clipboard held in that format.
EmptyClipboard(s) ==
    [s EXCEPT !.board = {}, !.calls = Append(@, Call("clear", 0, <<>>))]

SetClipboardData(s, fmt, data) ==
    [s EXCEPT !.board = {e \in @ : e.fmt # fmt}
                          \cup {[fmt |-> fmt, data |-> data]},
              !.calls = Append(@, Call("set", fmt, data))]

\* Clipboard::clearIf.
ClearEveryTime(s) == EmptyClipboard(s)

clearIf(s) ==
    IF s.needClear THEN [EmptyClipboard(s) EXCEPT !.needClear = FALSE] ELSE s

\* Clipboard::copyRaw; allocOk is whether GlobalAlloc returns a handle.
copyRaw(s, nativeFormat, data, allocOk) ==
    LET t == clearIf(s)
    IN  IF ~allocOk THEN [t EXCEPT !.exc = "Cannot allocate data"]
        ELSE SetClipboardData(t, nativeFormat, data)

\* Clipboard::copyBitmap: the bitmap is built from im.data(), top row first.
copyBitmap(s, i) == SetClipboardData(clearIf(s), CF_BITMAP, Flatten(i.fData))

\* Clipboard::copyImage.
CopyEncoded(s, nativeFormat, enc, allocOk) ==
    IF enc.kind = "ok" THEN copyRaw(s, nativeFormat, enc.bytes, allocOk)
    ELSE [s EXCEPT !.exc = "y/x out of range"]

Format == {"DIB_OLD", "DIB_NEW_SHORT", "DIB_NEW_LONG", "BITMAP"}

copyImage(s, i, fmt, allocOk) ==
    CASE fmt = "DIB_OLD" -> CopyEncoded(s, CF_DIB, makeOldDib(i), allocOk)
      [] fmt = "DIB_NEW_LONG" ->
            CopyEncoded(s, CF_DIBV5, makeNewDib(i, TRUE), allocOk)
      [] fmt = "DIB_NEW_SHORT" ->
            CopyEncoded(s, CF_DIBV5, makeNewDib(i, FALSE), allocOk)
      [] fmt = "BITMAP" -> copyBitmap(s, i)

\* Clipboard::Clipboard; openOk is whether OpenClipboard succeeds.  When it
\* throws, no object exists and no destructor will run.
Construct(openOk) ==
    /\ calls' = Append(calls, Call(IF openOk THEN "open" ELSE "openFailed",
                                   0, <<>>))
    /\ isOpen' = openOk
    /\ clip' = IF openOk THEN "alive" ELSE "none"
    /\ exc' = IF openOk THEN "" ELSE "Cannot open clipboard"
    /\ needClear' = TRUE
    /\ copies' = 0
    /\ board' = board

\* Clipboard::~Clipboard.
DestructorLeaks ==
    /\ clip' = "dead"
    /\ UNCHANGED <<isOpen, calls, needClear, board, exc, copies>>

Destructor ==
    /\ calls' = Append(calls, Call("close", 0, <<>>))
    /\ isOpen' = FALSE
    /\ clip' = "dead"
    /\ UNCHANGED <<needClear, board, exc, copies>>

\* A method call's effect on the state.
Returns(s) ==
    /\ needClear' = s.needClear
    /\ board' = s.board
    /\ calls' = s.calls
    /\ exc' = s.exc
    /\ copies' = copies + 1
    /\ UNCHANGED <<clip, isOpen>>

----------------------------------------------------------------------------
\* One Clipboard object under any sequence of copy calls; the caller may
\* catch an exception and go on.

\* What other programs may have left on the clipboard.
Foreign == {[fmt |-> 1, data |-> <<72, 105>>], [fmt |-> CF_DIB, data |-> <<40>>]}

RawFormats == {1, CF_DIB}
RawData == {<<1>>, <<2, 3>>}

Image11 == resize(EmptyImage, SizeT(1), SizeT(1), YELLOW)
Image12 == resize(EmptyImage, SizeT(1), SizeT(2), SEMI_AQUA)
ClipImages == {Image11, Image12}

ClipConstruct ==
    /\ clip = "none" /\ calls = <<>>
    /\ \E openOk \in BOOLEAN : Construct(openOk)
    /\ UNCHANGED <<imgVars, mainVars>>

ClipCopyRaw(fmt, data) ==
    /\ clip = "alive" /\ copies < MaxCalls
    /\ \E allocOk \in BOOLEAN : Returns(copyRaw(ClipState, fmt, data, allocOk))
    /\ UNCHANGED <<imgVars, mainVars>>

ClipCopyBitmap(i) ==
    /\ clip = "alive" /\ copies < MaxCalls
    /\ Returns(copyBitmap(ClipState, i))
    /\ UNCHANGED <<imgVars, mainVars>>

ClipCopyImage(i, fmt) ==
    /\ clip = "alive" /\ copies < MaxCalls
    /\ \E allocOk \in BOOLEAN :
          Returns(copyImage(ClipState, i, fmt, allocOk))
    /\ UNCHANGED <<imgVars, mainVars>>

ClipDestroy ==
    /\ clip = "alive"
    /\ Destructor
    /\ UNCHANGED <<imgVars, mainVars>>

InitClip ==
    /\ im = EmptyImage
    /\ last = NoLast
    /\ stream = <<>>
    /\ clip = "none"
    /\ needClear = TRUE
    /\ isOpen = FALSE
    /\ board \in SUBSET Foreign
    /\ calls = <<>>
    /\ exc = ""
    /\ copies = 0
    /\ pc = "start"
    /\ locals = NoLocals
    /\ cout = <<>>

NextClip ==
    \/ ClipConstruct
    \/ \E fmt \in RawFormats, data \in RawData : ClipCopyRaw(fmt, data)
    \/ \E i \in ClipImages : ClipCopyBitmap(i)
    \/ \E i \in ClipImages, fmt \in Format : ClipCopyImage(i, fmt)
    \/ ClipDestroy

SpecClip == InitClip /\ [][NextClip]_vars

----------------------------------------------------------------------------
\* makeImage and main.

\* image(y, x) = color inside makeImage.
Assign(r, y, x, color) ==
    IF r.kind # "ok" THEN r
    ELSE LET ref == at(r.im, SizeT(y), SizeT(x))
         IN  IF ref.kind = "throw" THEN [r EXCEPT !.kind = "throw"]
             ELSE IF ~InStorage(r.im, ref.off) THEN [r EXCEPT !.kind = "wild"]
             ELSE [r EXCEPT !.im.fData[ToNat(ref.off) + 1] = color]

\* std::fill over image.scanLine(y) inside makeImage.
FillLine(r, y, color) ==
    IF r.kind # "ok" THEN r
    ELSE LET sp == scanLine(r.im, SizeT(y))
         IN  IF sp.kind = "throw" THEN [r EXCEPT !.kind = "throw"]
             ELSE IF ~SpanInStorage(r.im, sp) THEN [r EXCEPT !.kind = "wild"]
             ELSE [r EXCEPT !.im = FillSpan(r.im, sp, color)]

\* makeImage's x9 and y9.
X9(image) == ToNat(width(image)) - 1
Y9(image) == ToNat(height(image)) - 1

\* How a step of makeImage leaves it: on, or by an exception.
MakeImageStep(r, next) ==
    /\ locals' = IF r.kind = "ok" THEN [locals EXCEPT !.image = r.im]
                 ELSE locals
    /\ exc' = IF r.kind = "throw" THEN "y/x out of range" ELSE exc
    /\ pc' = IF r.kind = "ok" THEN next
             ELSE IF r.kind = "throw" THEN "catch" ELSE "crashed"
    /\ UNCHANGED <<imgVars, clip, needClear, isOpen, board, calls, copies, cout>>

\* Image <name> = makeImage(bg): the call, up to Image image(12, 10, bg).
MainMakeImage(at_, name, bg) ==
    /\ pc = at_
    /\ locals' = [locals EXCEPT
                    !.image = resize(EmptyImage, SizeT(12), SizeT(10), bg),
                    !.y = 1, !.target = name]
    /\ pc' = "sides"
    /\ UNCHANGED <<imgVars, clipVars, cout>>

\* One round of the loop: image(y, x0) = YELLOW; image(y, x9) = BLUE; ++y.
MakeImageSides ==
    /\ pc = "sides" /\ locals.y < Y9(locals.image)
    /\ LET r0 == [kind |-> "ok", im |-> locals.image]
           r == Assign(Assign(r0, locals.y, 0, YELLOW),
                       locals.y, X9(locals.image), BLUE)
       IN  /\ locals' = IF r.kind = "ok"
                        THEN [locals EXCEPT !.image = r.im, !.y = @ + 1]
                        ELSE locals
           /\ exc' = IF r.kind = "throw" THEN "y/x out of range" ELSE exc
           /\ pc' = IF r.kind = "ok" THEN "sides"
                    ELSE IF r.kind = "throw" THEN "catch" ELSE "crashed"
    /\ UNCHANGED <<imgVars, clip, needClear, isOpen, board, calls, copies, cout>>

\* After the loop: the top scan line red.
MakeImageTop ==
    /\ pc = "sides" /\ locals.y >= Y9(locals.image)
    /\ MakeImageStep(FillLine([kind |-> "ok", im |-> locals.image], 0, RED),
                     "bottom")

\* The bottom scan line green.
MakeImageBottom ==
    /\ pc = "bottom"
    /\ MakeImageStep(FillLine([kind |-> "ok", im |-> locals.image],
                              Y9(locals.image), GREEN), "return")

\* return image; main goes on with its next statement.
MakeImageReturn ==
    /\ pc = "return"
    /\ locals' = [locals EXCEPT ![locals.target] = locals.image]
    /\ pc' = CASE locals.target = "imBlack" -> "mkPink"
               [] locals.target = "imPink" -> "mkAqua"
               [] locals.target = "imAqua" -> "clip"
    /\ UNCHANGED <<imgVars, clipVars, cout>>

\* Clipboard clip;
MainConstruct ==
    /\ pc = "clip"
    /\ \E openOk \in BOOLEAN :
          /\ Construct(openOk)
          /\ pc' = IF openOk THEN "copy1" ELSE "catch"
    /\ UNCHANGED <<imgVars, locals, cout>>

\* clip.copyImage(<name>, fmt); an exception leaves the try block.
MainCopyImage(at_, name, fmt, next) ==
    /\ pc = at_
    /\ \E allocOk \in BOOLEAN :
          LET s == copyImage(ClipState, locals[name], fmt, allocOk)
          IN  /\ Returns(s)
              /\ pc' = IF s.exc = "" THEN next ELSE "unwind"
    /\ UNCHANGED <<imgVars, locals, cout>>

\* std::cout << "Successfully copied!\n";
MainPrint ==
    /\ pc = "print"
    /\ cout' = Append(cout, <<"Successfully copied!", "">>)
    /\ pc' = "scope"
    /\ UNCHANGED <<imgVars, clipVars, locals>>

\* The end of the try block destroys clip.
MainScopeExit ==
    /\ pc = "scope"
    /\ Destructor
    /\ pc' = "done"
    /\ UNCHANGED <<imgVars, locals, cout>>

\* Stack unwinding destroys clip before the handler runs.
MainUnwind ==
    /\ pc = "unwind"
    /\ Destructor
    /\ pc' = "catch"
    /\ UNCHANGED <<imgVars, locals, cout>>

\* catch (const std::exception& e): std::cout << "ERROR: " << e.what()
MainCatch ==
    /\ pc = "catch"
    /\ cout' = Append(cout, <<"ERROR: ", exc>>)
    /\ pc' = "done"
    /\ UNCHANGED <<imgVars, clipVars, locals>>

InitMain ==
    /\ im = EmptyImage
    /\ last = NoLast
    /\ stream = <<>>
    /\ clip = "none"
    /\ needClear = TRUE
    /\ isOpen = FALSE
    /\ board \in SUBSET Foreign
    /\ calls = <<>>
    /\ exc = ""
    /\ copies = 0
    /\ pc = "start"
    /\ locals = NoLocals
    /\ cout = <<>>

NextMain ==
    \/ MainMakeImage("start", "imBlack", SEMI_BLACK)
    \/ MainMakeImage("mkPink", "imPink", SEMI_PINK)
    \/ MainMakeImage("mkAqua", "imAqua", SEMI_AQUA)
    \/ MakeImageSides
    \/ MakeImageTop
    \/ MakeImageBottom
    \/ MakeImageReturn
    \/ MainConstruct
    \/ MainCopyImage("copy1", "imAqua", "DIB_OLD", "copy2")
    \/ MainCopyImage("copy2", "imPink", "DIB_NEW_LONG", "copy3")
    \/ MainCopyImage("copy3", "imBlack", "BITMAP", "print")
    \/ MainPrint
    \/ MainScopeExit
    \/ MainUnwind
    \/ MainCatch

SpecMain == InitMain /\ [][NextMain]_vars

----------------------------------------------------------------------------
\* Reading an encoded stream back.

Field(s, off, n) == SubSeq(s, off + 1, off + n)

EncodeOps == {"makeOldDib", "makeNewDibShort", "makeNewDibLong"}
V5Ops == {"makeNewDibShort", "makeNewDibLong"}

\* The header size each format documents and the palette it carries.
HeaderSize(op) == IF op = "makeOldDib" THEN 40 ELSE 124
PaletteSize(op) == IF op = "makeNewDibShort" THEN 0 ELSE 12

PixelSection(s, op) ==
    SubSeq(s, HeaderSize(op) + PaletteSize(op) + 1, Len(s))

Ge(a, b) == ~Gt(b, a)

SmallImage == Fits(im.fWidth) /\ Fits(im.fHeight)
W == ToNat(im.fWidth)
H == ToNat(im.fHeight)

----------------------------------------------------------------------------
\* C1: at(row, col) fails with OutOfRange whenever row >= height or
\* col >= width, and scanLine(row) whenever row >= height, the edge indices
\* row == height and col == width included.
C1_EdgeRejected ==
    /\ (last.op \in {"set", "get"}
          /\ (Ge(last.y, im.fHeight) \/ Ge(last.x, im.fWidth)))
        => last.kind = "throw"
    /\ (last.op = "fill" /\ Ge(last.y, im.fHeight)) => last.kind = "throw"

\* C2: the pixel-data section of every encoded stream holds row h-1-k as
\* its k-th row, each row left to right, each pixel as b, g, r, a; every
\* pixel once; empty for a zero-area image; the encoder does not throw.
C2_PixelDataBottomUp ==
    last.op \in EncodeOps =>
        /\ last.kind = "ok"
        /\ LET data == PixelSection(stream, last.op)
           IN  /\ Len(data) = 4 * Len(im.fData)
               /\ SmallImage =>
                     \A k \in 0..(H - 1), j \in 0..(W - 1) :
                         Field(data, 4 * (k * W + j), 4)
                           = <<im.fData[(H - 1 - k) * W + j + 1].b,
                               im.fData[(H - 1 - k) * W + j + 1].g,
                               im.fData[(H - 1 - k) * W + j + 1].r,
                               im.fData[(H - 1 - k) * W + j + 1].a>>
               /\ (IsZero(im.fWidth) \/ IsZero(im.fHeight)) => data = <<>>

\* A 2 x 2 image whose rows and columns differ was encoded.
C2_Witness ==
    /\ last.op = "makeNewDibShort" /\ last.kind = "ok"
    /\ SmallImage /\ H = 2 /\ W = 2
    /\ im.fData[1] # im.fData[3]
    /\ im.fData[1] # im.fData[2]

\* C3: the stream is header ++ palette ++ pixel data: 40 header bytes for
\* the old DIB and 124 for both V5 variants, then the 12 bytes of the red,
\* green and blue masks for the old and the long V5 DIB and nothing for
\* the short one; its length is header + palette + nBytes().
C3_StreamLayout ==
    last.op \in EncodeOps =>
        /\ Field(stream, 0, 4) = <<HeaderSize(last.op), 0, 0, 0>>
        /\ Len(stream) = HeaderSize(last.op) + PaletteSize(last.op)
                            + ToNat(nBytes(im))
        /\ ToNat(nBytes(im)) = 4 * Len(im.fData)
        /\ last.op # "makeNewDibShort" =>
              Field(stream, HeaderSize(last.op), 12)
                = <<0, 0, 255, 0,  0, 255, 0, 0,  255, 0, 0, 0>>

\* A four-pixel image was encoded as the long V5 DIB: 124 + 12 + 16 bytes.
C3_Witness ==
    /\ last.op = "makeNewDibLong" /\ last.kind = "ok"
    /\ Len(im.fData) = 4
    /\ Len(stream) = 124 + 12 + 16

C5_ClrUsedCountsPalette ==
    /\ last.op = "makeNewDibShort" => Field(stream, 32, 4) = <<0, 0, 0, 0>>
    /\ last.op = "makeNewDibLong" => Field(stream, 32, 4) = <<3, 0, 0, 0>>

\* C5 as amended: the V5 header's colors-used count is 0 in both variants,
\* also in the long one, whose three-entry mask table is appended.
C5_ClrUsedZero ==
    last.op \in V5Ops => Field(stream, 32, 4) = <<0, 0, 0, 0>>

\* The long V5 DIB of an image carries the appended mask table.
C5_Witness ==
    /\ last.op = "makeNewDibLong" /\ last.kind = "ok"
    /\ Field(stream, 124, 12) = <<0, 0, 255, 0,  0, 255, 0, 0,  255, 0, 0, 0>>
    /\ Len(stream) = 124 + 12 + 4 * Len(im.fData)

\* C6: the header parsed back gives the image's width and height (as
\* positive numbers), planes 1, bit count 32, the bit-fields compression
\* and nBytes() as image size, every other field of the old header zero,
\* for all dimensions.
C6_HeaderRoundTrip ==
    last.op \in EncodeOps =>
        /\ ZeroExt(Field(stream, 4, 4)) = im.fWidth
        /\ ~IsNegative(Field(stream, 4, 4))
        /\ ZeroExt(Field(stream, 8, 4)) = im.fHeight
        /\ ~IsNegative(Field(stream, 8, 4))
        /\ Field(stream, 12, 2) = <<1, 0>>
        /\ Field(stream, 14, 2) = <<32, 0>>
        /\ Field(stream, 16, 4) = <<3, 0, 0, 0>>
        /\ ZeroExt(Field(stream, 20, 4)) = nBytes(im)
        /\ Field(stream, 24, 8) = Zeros(8)
        /\ Field(stream, 36, 4) = Zeros(4)
        /\ last.op \in V5Ops =>
              /\ Field(stream, 60, 48) = Zeros(48)
              /\ Field(stream, 112, 12) = Zeros(12)

\* C7: the pixel sequence always has width() * height() elements, and
\* right after resize(w, h, c) every pixel equals c.
C7_SizeAndFill ==
    /\ Fits(area(im))
    /\ Len(im.fData) = ToNat(area(im))
    /\ last.op = "resize" =>
          \A k \in 1..Len(im.fData) : im.fData[k] = last.c

\* A painted buffer was resized to four pixels of another color.
C7_Witness ==
    /\ last.op = "resize" /\ last.painted
    /\ Len(im.fData) = 4

----------------------------------------------------------------------------
\* The system clipboard calls of a session.

Clears == {k \in 1..Len(calls) : calls[k].call = "clear"}
Sets == {k \in 1..Len(calls) : calls[k].call = "set"}
Closes == {k \in 1..Len(calls) : calls[k].call = "close"}
Opened == \E k \in 1..Len(calls) : calls[k].call = "open"

\* C8: in one session the clear step happens at most once and before the
\* first set call, no clear follows a set call, and every format a copy of
\* the session staged stays on the clipboard, holding the data of the
\* latest copy made in that format.
C8_ClearOnce ==
    /\ Cardinality(Clears) <= 1
    /\ \A k \in Sets : \E c \in Clears : c < k
    /\ \A k \in Sets : \A c \in Clears : c < k
    /\ \A k \in Sets :
          \/ \E j \in Sets : j > k /\ calls[j].fmt = calls[k].fmt
          \/ [fmt |-> calls[k].fmt, data |-> calls[k].data] \in board

\* Two copies staged two formats after the one clear, a third copy failed.
C8_Witness ==
    /\ copies = 3
    /\ Cardinality(Clears) = 1
    /\ Cardinality(Sets) = 2
    /\ {calls[k].fmt : k \in Sets} = {CF_DIB, CF_BITMAP}
    /\ exc = "Cannot allocate data"
    /\ {e.fmt : e \in board} = {CF_DIB, CF_BITMAP}

\* C9: once the clipboard was opened, close is called exactly once on every
\* path of main, after every clear and set call; when opening failed, no
\* clear, set or close call is made.
C9_ScopedClose ==
    /\ Cardinality(Closes) <= 1
    /\ \A c \in Closes : Opened /\ c = Len(calls)
    /\ (pc = "done" /\ Opened) => Cardinality(Closes) = 1
    /\ ~Opened => (Clears = {} /\ Sets = {} /\ Closes = {})

\* main ended by a failed allocation after one format was set.
C9_Witness ==
    /\ pc = "done"
    /\ cout = << <<"ERROR: ", "Cannot allocate data">> >>
    /\ Cardinality(Sets) = 1
    /\ Closes = {Len(calls)}
    /\ ~isOpen

\* C10: main ends either with all three representations set and the one
\* success line, or with one error line, the later steps skipped, and the
\* clipboard neither cleared but empty nor holding only some of the
\* representations.
C10_NoPartialSuccess ==
    pc = "done" =>
        \/ /\ {calls[k].fmt : k \in Sets} = {CF_DIB, CF_DIBV5, CF_BITMAP}
           /\ cout = << <<"Successfully copied!", "">> >>
        \/ /\ Len(cout) = 1 /\ cout[1][1] = "ERROR: "
           /\ Sets = {}
           /\ Clears = {}

====
